---- MODULE Spec2Model ----
(***************************************************************************)
(* WhatsApp appointment scheduler: the AppointmentFlow state machine of    *)
(* crew.py and the GoogleCalendarHelper of google_calendar_helper.py.      *)
(*                                                                         *)
(* Strings are sequences of tokens (the empty string is <<>>); a Python    *)
(* None that ends up formatted into a string is the token "None".          *)
(* Datetimes are records [wall, off]: wall-clock minutes since 00:00 of    *)
(* day 0 and the UTC offset in minutes; two aware datetimes are compared   *)
(* by their instant wall - off.                                            *)
(***************************************************************************)
EXTENDS Integers, Sequences, FiniteSets, TLC

\* ------------------------------------------------------------------ bounds
NumRequests == 2
MaxListLen == 2

Requests == 1..NumRequests

\* ------------------------------------------------------- program constants
DEFAULT_DURATION == 60
MinutesPerDay == 24 * 60
IsraelOffset == 120

ABSENT == "<absent>"
NULL == "<null>"
NONE == "None"

\* ---------------------------------------------------------- message catalog
CatalogLanguages == {"english", "hebrew"}

CatalogMessage(outcome, language) == <<outcome, language>>

\* ------------------------------------------------------ AppointmentState
NoCalendarData ==
    [kind |-> "None", empty |-> TRUE, title |-> ABSENT, date |-> ABSENT,
     time |-> ABSENT, duration |-> [kind |-> "absent", val |-> 0]]

InitialState ==
    [category |-> <<>>, language |-> "english", calendar_data |-> NoCalendarData,
     response |-> <<>>, event_created |-> FALSE]

\* ------------------------------------------------------------ _parse_json
\* A stage's raw text: form says how the JSON object sits in the text,
\* data is the object that json.loads yields when the matched text is valid.
EmptyClassification == [category |-> <<ABSENT>>, language |-> ABSENT]

ParsesAsJson(form) == form \in {"json", "noisy_json"}

ParseJson(text, emptyDict) ==
    IF ParsesAsJson(text.form) THEN text.data ELSE emptyDict

\* ---------------------------------------------------------- route_message
UpperToken(tok) ==
    CASE tok = "appointment" -> "APPOINTMENT"
      [] tok = "general" -> "GENERAL"
      [] OTHER -> tok

Upper(str) == [i \in 1..Len(str) |-> UpperToken(str[i])]

IsString(catval) == catval # <<NULL>>

DefaultCategoryGeneral == <<"GENERAL">>

DefaultCategory == <<"UNRELATED">>

DefaultLanguage == "english"

DictGetCategory(data) ==
    IF data.category = <<ABSENT>> THEN DefaultCategory ELSE data.category

DictGetLanguage(data) ==
    IF data.language = ABSENT THEN DefaultLanguage ELSE data.language

\* ------------------------------------------------------------ select_path
Contains(str, tok) == \E i \in 1..Len(str) : str[i] = tok

SelectPathGeneralFirst(category) ==
    IF Contains(category, "GENERAL") THEN "general"
    ELSE IF Contains(category, "APPOINTMENT") THEN "appointment"
    ELSE "unrelated"

SelectPathOf(category) ==
    IF Contains(category, "APPOINTMENT") THEN "appointment"
    ELSE IF Contains(category, "GENERAL") THEN "general"
    ELSE "unrelated"

\* -------------------------------------------------------------- datetimes
\* strptime(f"{date} {time}", "%Y-%m-%d %H:%M"): -1 stands for ValueError.
\* Days are counted from 2024-01-15.
DateDay(date) ==
    CASE date = "2024-01-15" -> 0
      [] date = "2024-01-16" -> 1
      [] date = "2024-03-29" -> 74
      [] date = "2024-07-15" -> 182
      [] date = "2024-10-27" -> 286
      [] OTHER -> -1

TimeMinutes(time) ==
    CASE time = "02:30" -> 2 * 60 + 30
      [] time = "10:00" -> 10 * 60
      [] time = "11:00" -> 11 * 60
      [] OTHER -> -1

ValidDateTime(date, time) == DateDay(date) >= 0 /\ TimeMinutes(time) >= 0

\* ZoneInfo("Asia/Jerusalem") in 2024: UTC+2, and UTC+3 from 2024-03-29
\* 02:00 (the clock jumps to 03:00) to 2024-10-27 02:00 (back to 01:00). A
\* wall time read with fold=0 in the skipped hour keeps UTC+2 and in the
\* repeated hour keeps UTC+3.
SummerOffset == IsraelOffset + 60

DstStartWall == DateDay("2024-03-29") * MinutesPerDay + 3 * 60

DstEndWall == DateDay("2024-10-27") * MinutesPerDay + 2 * 60

UtcOffsetOfWall(wall) ==
    IF wall >= DstStartWall /\ wall < DstEndWall THEN SummerOffset ELSE IsraelOffset

UtcOffsetOfInstant(instant) ==
    IF instant >= DstStartWall - SummerOffset /\ instant < DstEndWall - SummerOffset
    THEN SummerOffset ELSE IsraelOffset

IsraelDateTime(wall) == [wall |-> wall, off |-> UtcOffsetOfWall(wall)]

Instant(dt) == dt.wall - dt.off

\* start + timedelta(minutes=...) on a datetime whose tzinfo is ISRAEL_TZ
AddMinutes(dt, minutes) == IsraelDateTime(dt.wall + minutes)

IsoFormatLocalAsZ(dt) == [form |-> "utc_z", wall |-> dt.wall, off |-> 0]

IsoFormat(dt) == [form |-> "offset", wall |-> dt.wall, off |-> dt.off]

ParseDatetime(date, time) ==
    IsraelDateTime(DateDay(date) * MinutesPerDay + TimeMinutes(time))

\* A provider time value: form "utc_z" (ISO with Z), "offset" (ISO with its
\* own offset), "naive" (ISO without offset), "date" (all-day date),
\* "garbage" (not a date) or "missing" (neither dateTime nor date).
ReadableForms == {"utc_z", "offset", "naive", "date"}

Readable(tv) == tv.form \in ReadableForms

ParseEventDatetime(tv) ==
    CASE tv.form = "utc_z" -> [wall |-> tv.wall, off |-> 0]
      [] tv.form = "offset" -> [wall |-> tv.wall, off |-> tv.off]
      [] OTHER -> IsraelDateTime(tv.wall)

\* ---------------------------------------------------- _check_time_conflict
NoConflict == [found |-> FALSE, summary |-> NONE, start_wall |-> 0, end_wall |-> 0]

OverlapsStartInside(start, end, event_start, event_end) ==
    Instant(start) >= Instant(event_start) /\ Instant(start) < Instant(event_end)

OverlapsClosed(start, end, event_start, event_end) ==
    Instant(start) <= Instant(event_end) /\ Instant(end) >= Instant(event_start)

Overlaps(start, end, event_start, event_end) ==
    Instant(start) < Instant(event_end) /\ Instant(end) > Instant(event_start)

EventReadable(event) == Readable(event.start) /\ Readable(event.end)

EventOverlaps(start, end, event) ==
    Overlaps(start, end, ParseEventDatetime(event.start), ParseEventDatetime(event.end))

\* astimezone(ISRAEL_TZ): the wall clock in Israel at the datetime's instant
AsIsraelWall(dt) == Instant(dt) + UtcOffsetOfInstant(Instant(dt))

ConflictOf(event) ==
    [found |-> TRUE, summary |-> event.summary,
     start_wall |-> AsIsraelWall(ParseEventDatetime(event.start)),
     end_wall |-> AsIsraelWall(ParseEventDatetime(event.end))]

RECURSIVE ScanEventsSkipUnreadable(_, _, _, _)
ScanEventsSkipUnreadable(start, end, items, i) ==
    IF i > Len(items) THEN NoConflict
    ELSE IF ~EventReadable(items[i]) THEN ScanEventsSkipUnreadable(start, end, items, i + 1)
    ELSE IF EventOverlaps(start, end, items[i]) THEN ConflictOf(items[i])
    ELSE ScanEventsSkipUnreadable(start, end, items, i + 1)

RECURSIVE ScanEvents(_, _, _, _)
ScanEvents(start, end, items, i) ==
    IF i > Len(items) THEN NoConflict
    ELSE IF ~EventReadable(items[i]) THEN NoConflict
    ELSE IF EventOverlaps(start, end, items[i]) THEN ConflictOf(items[i])
    ELSE ScanEvents(start, end, items, i + 1)

CheckTimeConflict(start, end, listing) ==
    IF listing.raised THEN NoConflict ELSE ScanEvents(start, end, listing.items, 1)

\* ----------------------------------------------------- create_event results
IsHebrew(language) == language = "hebrew"

Failure(message) ==
    [success |-> FALSE, message |-> message, event_link |-> NONE, event_id |-> NONE]

ServiceNotConfiguredMessage(language) ==
    IF IsHebrew(language) THEN <<"service not configured (he)">>
    ELSE <<"Google Calendar service not configured. Please set up credentials file.">>

OccupiedMessage(language, date, time) ==
    IF IsHebrew(language) THEN <<"slot occupied (he)", date, time>>
    ELSE <<"Time slot is occupied!", date, time>>

SuccessMessageWithoutDuration(language, date, time, duration, title) ==
    IF IsHebrew(language)
    THEN <<"scheduled (he)", date, time, title>>
    ELSE <<"Appointment scheduled successfully!", date, time, title>>

SuccessMessage(language, date, time, duration, title) ==
    IF IsHebrew(language)
    THEN <<"scheduled (he)", date, time, ToString(duration), title>>
    ELSE <<"Appointment scheduled successfully!", date, time, ToString(duration), title>>

ApiErrorMessage(language, detail) ==
    IF IsHebrew(language) THEN <<"api error (he)", detail>>
    ELSE <<"Error scheduling appointment:", detail>>

UnexpectedErrorMessage(language, detail) ==
    IF IsHebrew(language) THEN <<"unexpected error (he)", detail>>
    ELSE <<"Unexpected error:", detail>>

ConflictResult(language, date, time) == Failure(OccupiedMessage(language, date, time))

InsertResultOneWrapper(language, date, time, duration, title, outcome) ==
    IF outcome.kind = "ok"
    THEN [success |-> TRUE,
          message |-> SuccessMessage(language, date, time, duration, title),
          event_link |-> outcome.link, event_id |-> outcome.id]
    ELSE Failure(UnexpectedErrorMessage(language, outcome.detail))

InsertResultHttpSuccess(language, date, time, duration, title, outcome) ==
    IF outcome.kind = "error"
    THEN Failure(UnexpectedErrorMessage(language, outcome.detail))
    ELSE [success |-> TRUE,
          message |-> SuccessMessage(language, date, time, duration, title),
          event_link |-> outcome.link, event_id |-> outcome.id]

InsertResult(language, date, time, duration, title, outcome) ==
    CASE outcome.kind = "ok" ->
            [success |-> TRUE,
             message |-> SuccessMessage(language, date, time, duration, title),
             event_link |-> outcome.link, event_id |-> outcome.id]
      [] outcome.kind = "http_error" -> Failure(ApiErrorMessage(language, outcome.detail))
      [] OTHER -> Failure(UnexpectedErrorMessage(language, outcome.detail))

\* ------------------------------------------------- collaborator outputs
CategoryValues ==
    {<<"APPOINTMENT">>, <<"appointment">>, <<"GENERAL">>, <<"UNRELATED">>,
     <<"GENERAL", "APPOINTMENT">>, <<>>, <<NULL>>, <<ABSENT>>}

LanguageValues == {"english", "hebrew", "french", ABSENT}

UnparsableForms == {"empty", "garbage", "bad_json"}

\* text without a JSON object, a JSON object with any category and language
\* (the category naming two branches in english only), and the object
\* {"category": "appointment", "language": "hebrew"} inside other text
ClassificationOutputs ==
    [form : UnparsableForms, data : {EmptyClassification}]
      \cup [form : {"json"},
            data : [category : CategoryValues \ {<<"GENERAL", "APPOINTMENT">>},
                    language : LanguageValues]]
      \cup [form : {"json"},
            data : [category : {<<"GENERAL", "APPOINTMENT">>}, language : {"english"}]]
      \cup [form : {"noisy_json"},
            data : {[category |-> <<"appointment">>, language |-> "hebrew"]}]

Duration(kind, val) == [kind |-> kind, val |-> val]

EmptyDict ==
    [kind |-> "dict", empty |-> TRUE, title |-> ABSENT, date |-> ABSENT,
     time |-> ABSENT, duration |-> Duration("absent", 0)]

\* The objects the extraction stage can answer with: a complete event at
\* either hour without a duration; one at ten with a duration that is zero,
\* negative or null; an event without a title; and events whose date or time
\* is missing or wrong.
ExtractionDicts ==
    [kind : {"dict"}, empty : {FALSE}, title : {"Meeting"}, date : {"2024-01-15"},
     time : {"10:00", "11:00"}, duration : {Duration("absent", 0)}]
      \cup [kind : {"dict"}, empty : {FALSE}, title : {"Meeting"}, date : {"2024-01-15"},
            time : {"10:00"},
            duration : {Duration("int", 0), Duration("int", 0 - 60), Duration("null", 0)}]
      \cup [kind : {"dict"}, empty : {FALSE}, title : {ABSENT}, date : {"2024-01-15"},
            time : {"10:00"}, duration : {Duration("int", 30)}]
      \cup [kind : {"dict"}, empty : {FALSE}, title : {"Meeting"},
            date : {"tomorrow", ABSENT}, time : {"10:00"}, duration : {Duration("absent", 0)}]
      \cup [kind : {"dict"}, empty : {FALSE}, title : {"Meeting"},
            date : {"2024-01-15"}, time : {"25:00", ABSENT},
            duration : {Duration("absent", 0)}]

ExtractionOutputs ==
    [form : UnparsableForms, data : {EmptyDict}]
      \cup [form : {"json"}, data : ExtractionDicts \cup {EmptyDict}]

GeneralAnswers == {<<>>, <<"You can book by sending a date and a time.">>}

\* Events the provider's list call can return, around 2024-01-15 10:00-12:00.
TimeValue(form, wall, off) == [form |-> form, wall |-> wall, off |-> off]

EventPool ==
    {[summary |-> "half past ten", start |-> TimeValue("offset", 10 * 60 + 30, IsraelOffset),
      end |-> TimeValue("offset", 11 * 60 + 30, IsraelOffset)],
     [summary |-> "eleven to noon", start |-> TimeValue("utc_z", 9 * 60, 0),
      end |-> TimeValue("utc_z", 10 * 60, 0)],
     [summary |-> "nine to ten", start |-> TimeValue("naive", 9 * 60, 0),
      end |-> TimeValue("naive", 10 * 60, 0)],
     [summary |-> "next day", start |-> TimeValue("date", MinutesPerDay, 0),
      end |-> TimeValue("date", 2 * MinutesPerDay, 0)],
     [summary |-> "unreadable", start |-> TimeValue("garbage", 0, 0),
      end |-> TimeValue("missing", 0, 0)]}

RECURSIVE SeqsUpTo(_, _)
SeqsUpTo(S, n) ==
    IF n = 0 THEN {<<>>}
    ELSE LET shorter == SeqsUpTo(S, n - 1)
         IN shorter \cup {Append(q, x) : q \in shorter, x \in S}

NoListing == [raised |-> FALSE, items |-> <<>>]

ListOutcomes ==
    {[raised |-> TRUE, items |-> <<>>]}
      \cup [raised : {FALSE}, items : SeqsUpTo(EventPool, MaxListLen)]

InsertOutcomes ==
    {[kind |-> "ok", id |-> "evt_1", link |-> "https://calendar/evt_1", detail |-> ""],
     [kind |-> "http_error", id |-> NONE, link |-> NONE, detail |-> "HttpError 403"],
     [kind |-> "error", id |-> NONE, link |-> NONE, detail |-> "timed out"]}

\* ------------------------------------------------------------------ state
VARIABLES
    pc,               \* each request's position in process_whatsapp_message
    state,            \* each request's AppointmentState
    ret,              \* what process_whatsapp_message returned or raised
    helper,           \* create_calendar_event's local calendar_helper
    frame,            \* create_event's locals and its return value
    calls,            \* the provider calls each request has made
    raw,              \* the text each stage answered with, or its form
    ran,              \* the flow methods each request has run, in order
    calendar_helper,  \* the module global _calendar_helper (0 is None)
    instances,        \* the GoogleCalendarHelper objects constructed so far
    calendar          \* the events the provider stores; nth tells equal events apart

vars ==
    <<pc, state, ret, helper, frame, calls, raw, ran, calendar_helper, instances, calendar>>

NoReturn == [kind |-> "none", value |-> <<>>]

NoResult == [success |-> FALSE, message |-> <<>>, event_link |-> NONE, event_id |-> NONE]

NoFrame ==
    [entered |-> FALSE, start |-> IsraelDateTime(0), end |-> IsraelDateTime(0),
     listing |-> NoListing, conflict |-> NoConflict, returned |-> FALSE,
     result |-> NoResult]

NoAnswer == [kind |-> "none", id |-> NONE, link |-> NONE, detail |-> ""]

NoCalls == [list |-> 0, insert |-> 0, inserted |-> 0, insert_answer |-> NoAnswer]

NoRaw == [classification |-> "", extraction |-> "", answer |-> <<>>]

Init ==
    /\ pc = [r \in Requests |-> "idle"]
    /\ state = [r \in Requests |-> InitialState]
    /\ ret = [r \in Requests |-> NoReturn]
    /\ helper = [r \in Requests |-> 0]
    /\ frame = [r \in Requests |-> NoFrame]
    /\ calls = [r \in Requests |-> NoCalls]
    /\ raw = [r \in Requests |-> NoRaw]
    /\ ran = [r \in Requests |-> <<>>]
    /\ calendar_helper = 0
    /\ instances = <<>>
    /\ calendar = {}

\* ------------------------------------------------------------- scheduling
InFlight(r) == pc[r] \notin {"idle", "replied"}

\* requests are numbered in the order they arrive
InOrder(r) == \A q \in Requests : q < r => pc[q] # "idle"

\* the webhook handles one message at a time
OneAtATime(r) == \A q \in Requests : q # r => ~InFlight(q)

Raises(r, exception) ==
    /\ pc' = [pc EXCEPT ![r] = "fault"]
    /\ ret' = [ret EXCEPT ![r] = [kind |-> "exception", value |-> exception]]

\* An exception in a listener method: the flow engine re-raises it out of
\* kickoff, or logs it and ends the flow there, depending on its version.
ListenerRaises(r, exception, reraised) ==
    IF reraised
    THEN Raises(r, exception)
    ELSE /\ pc' = [pc EXCEPT ![r] = "terminal"]
         /\ ret' = ret

Runs(r, method) == ran' = [ran EXCEPT ![r] = Append(@, method)]

\* ------------------------------------------------------- receive_whatsapp
\* the webhook takes a message and calls process_whatsapp_message
Receive(r) ==
    /\ pc[r] = "idle"
    /\ InOrder(r)
    /\ pc' = [pc EXCEPT ![r] = "route_message"]
    /\ UNCHANGED <<state, ret, helper, frame, calls, raw, ran, calendar_helper,
                   instances, calendar>>

\* ---------------------------------------------------------- route_message
RouteMessage(r, text) ==
    /\ pc[r] = "route_message"
    /\ raw' = [raw EXCEPT ![r].classification = text.form]
    /\ Runs(r, "route_message")
    /\ LET data == ParseJson(text, EmptyClassification)
           category == DictGetCategory(data)
       IN IF IsString(category)
          THEN /\ state' = [state EXCEPT ![r].category = Upper(category),
                                         ![r].language = DictGetLanguage(data)]
               /\ pc' = [pc EXCEPT ![r] = "select_path"]
               /\ ret' = ret
          ELSE /\ Raises(r, <<"AttributeError", "upper">>)
               /\ state' = state
    /\ UNCHANGED <<helper, frame, calls, calendar_helper, instances, calendar>>

\* ------------------------------------------------------------ select_path
SelectPath(r) ==
    /\ pc[r] = "select_path"
    /\ Runs(r, "select_path")
    /\ pc' = [pc EXCEPT ![r] = SelectPathOf(state[r].category)]
    /\ UNCHANGED <<state, ret, helper, frame, calls, raw, calendar_helper, instances,
                   calendar>>

\* ------------------------------------------------------- extract_datetime
ExtractDatetime(r, text) ==
    /\ pc[r] = "appointment"
    /\ raw' = [raw EXCEPT ![r].extraction = text.form]
    /\ Runs(r, "extract_datetime")
    /\ state' = [state EXCEPT ![r].calendar_data = ParseJson(text, EmptyDict)]
    /\ pc' = [pc EXCEPT ![r] = "create_calendar_event"]
    /\ UNCHANGED <<ret, helper, frame, calls, calendar_helper, instances, calendar>>

\* -------------------------------------------------- create_calendar_event
Falsy(calendar_data) == calendar_data.kind = "None" \/ calendar_data.empty

NextAfterExtractionInsert(calendar_data) ==
    IF Falsy(calendar_data) THEN "responding" ELSE "insert"

NextAfterExtraction(calendar_data) ==
    IF Falsy(calendar_data) THEN "responding" ELSE "get_calendar_helper"

CreateCalendarEvent(r, reraised) ==
    /\ pc[r] = "create_calendar_event"
    /\ Runs(r, "create_calendar_event")
    /\ IF NextAfterExtraction(state[r].calendar_data) = "responding"
       THEN IF state[r].language \in CatalogLanguages
            THEN /\ state' = [state EXCEPT ![r].response =
                                 CatalogMessage("extraction_failed", state[r].language)]
                 /\ pc' = [pc EXCEPT ![r] = "responding"]
                 /\ ret' = ret
            ELSE /\ ListenerRaises(r, <<"KeyError", state[r].language>>, reraised)
                 /\ state' = state
       ELSE /\ pc' = [pc EXCEPT ![r] = NextAfterExtraction(state[r].calendar_data)]
            /\ UNCHANGED <<state, ret>>
    /\ UNCHANGED <<helper, frame, calls, raw, calendar_helper, instances, calendar>>

\* ---------------------------------------------------- get_calendar_helper
GetCalendarHelperCheck(r) ==
    /\ pc[r] = "get_calendar_helper"
    /\ pc' = [pc EXCEPT ![r] = IF calendar_helper = 0 THEN "construct_helper"
                                ELSE "return_helper"]
    /\ UNCHANGED <<state, ret, helper, frame, calls, raw, ran, calendar_helper,
                   instances, calendar>>

\* GoogleCalendarHelper() and the assignment to the global; service_built
\* is whether _initialize_service found credentials and built the service
GetCalendarHelperConstruct(r, service_built) ==
    /\ pc[r] = "construct_helper"
    /\ instances' = Append(instances, [service |-> service_built])
    /\ calendar_helper' = Len(instances) + 1
    /\ pc' = [pc EXCEPT ![r] = "return_helper"]
    /\ UNCHANGED <<state, ret, helper, frame, calls, raw, ran, calendar>>

GetCalendarHelperReturn(r) ==
    /\ pc[r] = "return_helper"
    /\ helper' = [helper EXCEPT ![r] = calendar_helper]
    /\ pc' = [pc EXCEPT ![r] = "create_event"]
    /\ UNCHANGED <<state, ret, frame, calls, raw, ran, calendar_helper, instances,
                   calendar>>

\* ----------------------------------------------------------- create_event
ArgTitle(event_data) == IF event_data.title = ABSENT THEN "Appointment" ELSE event_data.title

ArgDate(event_data) == IF event_data.date = ABSENT THEN NONE ELSE event_data.date

ArgTime(event_data) == IF event_data.time = ABSENT THEN NONE ELSE event_data.time

ArgDuration(event_data) ==
    IF event_data.duration.kind = "absent"
    THEN Duration("int", DEFAULT_DURATION)
    ELSE event_data.duration

\* create_event returns result; create_calendar_event copies it into the state
CreateEventReturns(r, result) ==
    /\ frame' = [frame EXCEPT ![r].entered = TRUE, ![r].returned = TRUE,
                              ![r].listing = NoListing, ![r].result = result]
    /\ state' = [state EXCEPT ![r].event_created = result.success,
                              ![r].response = result.message]
    /\ pc' = [pc EXCEPT ![r] = "responding"]

\* What create_event returns before it reaches the conflict check: the
\* service check comes first, then _parse_datetime, then timedelta; NoResult
\* when none of them ends the call.
EarlyResultParseFirst(service_built, language, date, time, duration) ==
    IF ~ValidDateTime(date, time)
    THEN Failure(UnexpectedErrorMessage(language, "Invalid date/time format"))
    ELSE IF ~service_built
    THEN Failure(ServiceNotConfiguredMessage(language))
    ELSE IF duration.kind # "int"
    THEN Failure(UnexpectedErrorMessage(language, "unsupported type for timedelta"))
    ELSE NoResult

EarlyResult(service_built, language, date, time, duration) ==
    IF ~service_built
    THEN Failure(ServiceNotConfiguredMessage(language))
    ELSE IF ~ValidDateTime(date, time)
    THEN Failure(UnexpectedErrorMessage(language, "Invalid date/time format"))
    ELSE IF duration.kind # "int"
    THEN Failure(UnexpectedErrorMessage(language, "unsupported type for timedelta"))
    ELSE NoResult

\* the service check and the computation of the proposed interval
CreateEventPrepare(r) ==
    /\ pc[r] = "create_event"
    /\ LET date == ArgDate(state[r].calendar_data)
           time == ArgTime(state[r].calendar_data)
           duration == ArgDuration(state[r].calendar_data)
           start == ParseDatetime(date, time)
           early == EarlyResult(instances[helper[r]].service, state[r].language,
                                date, time, duration)
       IN IF early # NoResult
          THEN CreateEventReturns(r, early)
          ELSE /\ frame' = [frame EXCEPT ![r].entered = TRUE, ![r].start = start,
                                         ![r].end = AddMinutes(start, duration.val)]
               /\ pc' = [pc EXCEPT ![r] = "check_time_conflict"]
               /\ state' = state
    /\ UNCHANGED <<ret, helper, calls, raw, ran, calendar_helper, instances, calendar>>

\* _check_time_conflict: the provider's list call and the scan of its answer.
\* frame.listing keeps the provider's answer until create_event has branched.
CreateEventCheckConflict(r, listing) ==
    /\ pc[r] = "check_time_conflict"
    /\ calls' = [calls EXCEPT ![r].list = @ + 1]
    /\ frame' = [frame EXCEPT
          ![r].listing = listing,
          ![r].conflict = CheckTimeConflict(frame[r].start, frame[r].end, listing)]
    /\ pc' = [pc EXCEPT ![r] = "conflict_checked"]
    /\ UNCHANGED <<state, ret, helper, raw, ran, calendar_helper, instances, calendar>>

NextAfterConflictCheckIgnored(conflict) == "insert"

NextAfterConflictCheck(conflict) == IF conflict.found THEN "responding" ELSE "insert"

\* "if conflict:" returns the occupied-slot result, otherwise goes on to insert
CreateEventBranchOnConflict(r) ==
    /\ pc[r] = "conflict_checked"
    /\ IF NextAfterConflictCheck(frame[r].conflict) = "responding"
       THEN CreateEventReturns(r, ConflictResult(state[r].language,
                                      ArgDate(state[r].calendar_data),
                                      ArgTime(state[r].calendar_data)))
       ELSE /\ frame' = [frame EXCEPT ![r].listing = NoListing]
            /\ pc' = [pc EXCEPT ![r] = NextAfterConflictCheck(frame[r].conflict)]
            /\ state' = state
    /\ UNCHANGED <<ret, helper, calls, raw, ran, calendar_helper, instances, calendar>>

\* the provider's insert call and the three ways create_event ends after it
CreateEventInsert(r, outcome) ==
    /\ pc[r] = "insert"
    /\ calls' = [calls EXCEPT ![r].insert = @ + 1,
                              ![r].inserted = IF outcome.kind = "ok" THEN @ + 1 ELSE @,
                              ![r].insert_answer = outcome]
    /\ calendar' = IF outcome.kind = "ok"
                   THEN calendar \cup {[start |-> IsoFormat(frame[r].start),
                                         end |-> IsoFormat(frame[r].end),
                                         summary |-> ArgTitle(state[r].calendar_data),
                                         nth |-> Cardinality(calendar) + 1]}
                   ELSE calendar
    /\ CreateEventReturns(r, InsertResult(state[r].language,
                                ArgDate(state[r].calendar_data),
                                ArgTime(state[r].calendar_data),
                                ArgDuration(state[r].calendar_data).val,
                                ArgTitle(state[r].calendar_data), outcome))
    /\ UNCHANGED <<ret, helper, raw, ran, calendar_helper, instances>>

\* Three @listen decorators are stacked on send_to_whatsapp. Each one
\* assigns the method's trigger, so the flow engine either keeps the three
\* triggers or only the one assigned last, create_calendar_event; in the
\* second case the flow ends after answer_general_question and
\* handle_unrelated. listened says whether their trigger was kept.
NextAfterHandler(listened) == IF listened THEN "responding" ELSE "terminal"

\* -------------------------------------------------- answer_general_question
\* str(crew.kickoff()): the text of the stage's answer
GeneralResponseOrFallback(answer) ==
    IF answer = <<>> THEN <<"Sorry, I could not answer that.">> ELSE answer

GeneralResponse(answer) == answer

AnswerGeneralQuestion(r, answer, listened) ==
    /\ pc[r] = "general"
    /\ raw' = [raw EXCEPT ![r].answer = answer]
    /\ Runs(r, "answer_general_question")
    /\ state' = [state EXCEPT ![r].response = GeneralResponse(answer)]
    /\ pc' = [pc EXCEPT ![r] = NextAfterHandler(listened)]
    /\ UNCHANGED <<ret, helper, frame, calls, calendar_helper, instances, calendar>>

\* --------------------------------------------------------- handle_unrelated
HandleUnrelated(r, reraised, listened) ==
    /\ pc[r] = "unrelated"
    /\ Runs(r, "handle_unrelated")
    /\ IF state[r].language \in CatalogLanguages
       THEN /\ state' = [state EXCEPT ![r].response =
                            CatalogMessage("unrelated", state[r].language)]
            /\ pc' = [pc EXCEPT ![r] = NextAfterHandler(listened)]
            /\ ret' = ret
       ELSE /\ ListenerRaises(r, <<"KeyError", state[r].language>>, reraised)
            /\ state' = state
    /\ UNCHANGED <<helper, frame, calls, raw, calendar_helper, instances, calendar>>

\* --------------------------------------------------------- send_to_whatsapp
SendToWhatsapp(r) ==
    /\ pc[r] = "responding"
    /\ Runs(r, "send_to_whatsapp")
    /\ pc' = [pc EXCEPT ![r] = "terminal"]
    /\ UNCHANGED <<state, ret, helper, frame, calls, raw, calendar_helper, instances,
                   calendar>>

\* ----------------------------------------------- process_whatsapp_message
\* kickoff has returned; process_whatsapp_message returns flow.state.response
ReturnResponse(r) ==
    /\ pc[r] = "terminal"
    /\ ret' = [ret EXCEPT ![r] = [kind |-> "value", value |-> state[r].response]]
    /\ pc' = [pc EXCEPT ![r] = "done"]
    /\ UNCHANGED <<state, helper, frame, calls, raw, ran, calendar_helper, instances,
                   calendar>>

\* the webhook sends its reply (the response, or its own error text when
\* process_whatsapp_message raised); the flow and its state are dropped
Reply(r) ==
    /\ pc[r] \in {"done", "fault"}
    /\ pc' = [pc EXCEPT ![r] = "replied"]
    /\ state' = [state EXCEPT ![r] = InitialState]
    /\ ret' = [ret EXCEPT ![r] = NoReturn]
    /\ helper' = [helper EXCEPT ![r] = 0]
    /\ frame' = [frame EXCEPT ![r] = NoFrame]
    /\ calls' = [calls EXCEPT ![r] = NoCalls]
    /\ raw' = [raw EXCEPT ![r] = NoRaw]
    /\ ran' = [ran EXCEPT ![r] = <<>>]
    /\ UNCHANGED <<calendar_helper, instances, calendar>>

\* ---------------------------------------------------------- specifications
\* Spec: the webhook handles one message at a time.
Step(r) ==
    \/ \E text \in ClassificationOutputs : RouteMessage(r, text)
    \/ SelectPath(r)
    \/ \E text \in ExtractionOutputs : ExtractDatetime(r, text)
    \/ \E reraised \in BOOLEAN : CreateCalendarEvent(r, reraised)
    \/ GetCalendarHelperCheck(r)
    \/ \E service_built \in BOOLEAN : GetCalendarHelperConstruct(r, service_built)
    \/ GetCalendarHelperReturn(r)
    \/ CreateEventPrepare(r)
    \/ \E listing \in ListOutcomes : CreateEventCheckConflict(r, listing)
    \/ CreateEventBranchOnConflict(r)
    \/ \E outcome \in InsertOutcomes : CreateEventInsert(r, outcome)
    \/ \E answer \in GeneralAnswers, listened \in BOOLEAN :
          AnswerGeneralQuestion(r, answer, listened)
    \/ \E reraised, listened \in BOOLEAN : HandleUnrelated(r, reraised, listened)
    \/ SendToWhatsapp(r)
    \/ ReturnResponse(r)
    \/ Reply(r)

Next ==
    \E r \in Requests :
        \/ OneAtATime(r) /\ Receive(r)
        \/ Step(r)

Spec == Init /\ [][Next]_vars

\* SpecConc: the webhook's threads handle messages concurrently; every
\* message is an appointment request in english.
ConcClassificationOutputs ==
    {[form |-> "json", data |-> [category |-> <<"APPOINTMENT">>, language |-> "english"]]}

ConcExtractionOutputs ==
    [form : {"json"},
     data : [kind : {"dict"}, empty : {FALSE}, title : {"Meeting"}, date : {"2024-01-15"},
             time : {"10:00", "11:00"}, duration : {Duration("absent", 0)}]]

ConcListOutcomes ==
    {[raised |-> TRUE, items |-> <<>>], [raised |-> FALSE, items |-> <<>>]}

StepConc(r) ==
    \/ Receive(r)
    \/ \E text \in ConcClassificationOutputs : RouteMessage(r, text)
    \/ SelectPath(r)
    \/ \E text \in ConcExtractionOutputs : ExtractDatetime(r, text)
    \/ \E reraised \in BOOLEAN : CreateCalendarEvent(r, reraised)
    \/ GetCalendarHelperCheck(r)
    \/ \E service_built \in BOOLEAN : GetCalendarHelperConstruct(r, service_built)
    \/ GetCalendarHelperReturn(r)
    \/ CreateEventPrepare(r)
    \/ \E listing \in ConcListOutcomes : CreateEventCheckConflict(r, listing)
    \/ CreateEventBranchOnConflict(r)
    \/ \E outcome \in InsertOutcomes : CreateEventInsert(r, outcome)
    \/ SendToWhatsapp(r)
    \/ ReturnResponse(r)
    \/ Reply(r)

NextConc == \E r \in Requests : StepConc(r)

SpecConc == Init /\ [][NextConc]_vars

\* SpecSerial: the webhook handles one message at a time and the provider is
\* reliable: the calendar starts with events that do not overlap, the list
\* call never fails and answers with every stored event that intersects the
\* queried window, ordered by start time.
StoredPool ==
    {[start |-> event.start, end |-> event.end, summary |-> event.summary, nth |-> 0] :
        event \in {e \in EventPool : EventReadable(e)}}

StoredStart(event) == Instant(ParseEventDatetime(event.start))

StoredEnd(event) == Instant(ParseEventDatetime(event.end))

InitialCalendars ==
    {S \in SUBSET StoredPool :
        \A a, b \in S : a # b => ~(StoredStart(a) < StoredEnd(b) /\ StoredStart(b) < StoredEnd(a))}

\* events().list(timeMin=start, timeMax=end, singleEvents=True, orderBy='startTime')
Intersecting(start, end) ==
    {event \in calendar : StoredEnd(event) > Instant(start) /\ StoredStart(event) < Instant(end)}

RECURSIVE OrderByStartTime(_)
OrderByStartTime(S) ==
    IF S = {} THEN <<>>
    ELSE LET first == CHOOSE a \in S : \A b \in S : StoredStart(a) <= StoredStart(b)
         IN <<first>> \o OrderByStartTime(S \ {first})

ReliableListing(r) ==
    [raised |-> FALSE, items |-> OrderByStartTime(Intersecting(frame[r].start, frame[r].end))]

SerialExtractionOutputs ==
    [form : {"json"},
     data : [kind : {"dict"}, empty : {FALSE}, title : {"Meeting"}, date : {"2024-01-15"},
             time : {"10:00", "11:00"},
             duration : {Duration("absent", 0), Duration("int", 30), Duration("int", 0),
                         Duration("int", 0 - 60)}]]

InitSerial ==
    /\ pc = [r \in Requests |-> "idle"]
    /\ state = [r \in Requests |-> InitialState]
    /\ ret = [r \in Requests |-> NoReturn]
    /\ helper = [r \in Requests |-> 0]
    /\ frame = [r \in Requests |-> NoFrame]
    /\ calls = [r \in Requests |-> NoCalls]
    /\ raw = [r \in Requests |-> NoRaw]
    /\ ran = [r \in Requests |-> <<>>]
    /\ calendar_helper = 0
    /\ instances = <<>>
    /\ calendar \in InitialCalendars

StepSerial(r) ==
    \/ \E text \in ConcClassificationOutputs : RouteMessage(r, text)
    \/ SelectPath(r)
    \/ \E text \in SerialExtractionOutputs : ExtractDatetime(r, text)
    \/ \E reraised \in BOOLEAN : CreateCalendarEvent(r, reraised)
    \/ GetCalendarHelperCheck(r)
    \/ GetCalendarHelperConstruct(r, TRUE)
    \/ GetCalendarHelperReturn(r)
    \/ CreateEventPrepare(r)
    \/ CreateEventCheckConflict(r, ReliableListing(r))
    \/ CreateEventBranchOnConflict(r)
    \/ \E outcome \in InsertOutcomes : CreateEventInsert(r, outcome)
    \/ SendToWhatsapp(r)
    \/ ReturnResponse(r)
    \/ Reply(r)

NextSerial ==
    \E r \in Requests :
        \/ OneAtATime(r) /\ Receive(r)
        \/ StepSerial(r)

SpecSerial == InitSerial /\ [][NextSerial]_vars

\* SpecRace: the webhook's threads handle messages concurrently against the
\* reliable provider, starting from an empty calendar.
StepRace(r) ==
    \/ Receive(r)
    \/ StepSerial(r)

NextRace == \E r \in Requests : StepRace(r)

SpecRace == Init /\ [][NextRace]_vars

\* ------------------------------------------------------------------ claims
Ran(r, method) == \E i \in 1..Len(ran[r]) : ran[r][i] = method

Returned(r) == pc[r] = "done"

\* C1: every invocation of process_whatsapp_message that returns, returns a
\* response string that is not empty, whatever the stages answered.
C1_ReturnsNonEmptyResponse ==
    \A r \in Requests : Returned(r) => ret[r].kind = "value" /\ ret[r].value # <<>>

\* C2: no failure inside the flow leaves process_whatsapp_message as an
\* exception: no request ever ends in an unhandled fault.
C2_NoUnhandledFault == \A r \in Requests : pc[r] # "fault"

\* C3: under concurrent first use GoogleCalendarHelper is constructed at most
\* once and every caller of get_calendar_helper gets the same instance.
C3_HelperConstructedOnce ==
    /\ Len(instances) <= 1
    /\ \A r, q \in Requests : helper[r] # 0 /\ helper[q] # 0 => helper[r] = helper[q]

\* C4: when the conflict check found an overlapping event, create_event
\* returns success=false with the occupied-slot message naming the requested
\* date and time, and the request makes no provider insert call.
OccupiedTexts == {"Time slot is occupied!", "slot occupied (he)"}

C4_ConflictBlocksInsert ==
    \A r \in Requests :
        frame[r].conflict.found =>
            /\ calls[r].insert = 0
            /\ pc[r] # "insert"
            /\ frame[r].returned =>
                 /\ frame[r].result.success = FALSE
                 /\ Len(frame[r].result.message) = 3
                 /\ frame[r].result.message[1] \in OccupiedTexts
                 /\ frame[r].result.message[2] = ArgDate(state[r].calendar_data)
                 /\ frame[r].result.message[3] = ArgTime(state[r].calendar_data)
                 /\ frame[r].result.event_id = NONE

C4_Witness ==
    \E r \in Requests : frame[r].conflict.found /\ frame[r].returned /\ Returned(r)

\* the half-open overlap test of the proposed interval of request r with a
\* readable event, on instants
ReadableOverlap(r, event) ==
    /\ EventReadable(event)
    /\ Instant(frame[r].start) < Instant(ParseEventDatetime(event.end))
    /\ Instant(frame[r].end) > Instant(ParseEventDatetime(event.start))

Listed(r) == pc[r] = "conflict_checked"

Items(r) == frame[r].listing.items

SomeUnreadable(r) == \E i \in 1..Len(Items(r)) : ~EventReadable(Items(r)[i])

\* the list call raised, or an unreadable event is met before any overlap
FailsBeforeOverlap(r) ==
    \/ frame[r].listing.raised
    \/ \E i \in 1..Len(Items(r)) :
          /\ ~EventReadable(Items(r)[i])
          /\ \A j \in 1..(i - 1) : ~ReadableOverlap(r, Items(r)[j])

\* C5 as stated: whenever the list call raised or any returned event is
\* unreadable, _check_time_conflict reports no conflict.
C5_FailOpenOnAnyUnreadable ==
    \A r \in Requests :
        Listed(r) /\ (frame[r].listing.raised \/ SomeUnreadable(r))
            => ~frame[r].conflict.found

\* C5 amended: when the list call raised, or an unreadable event comes before
\* every overlapping event of the answer, _check_time_conflict reports no
\* conflict and create_event goes on to the insert call.
C5_FailOpen ==
    /\ [](\A r \in Requests : Listed(r) /\ FailsBeforeOverlap(r) => ~frame[r].conflict.found)
    /\ [][\A r \in Requests :
            Listed(r) /\ FailsBeforeOverlap(r) /\ pc'[r] # pc[r] => pc'[r] = "insert"]_vars

C5_Witness ==
    \E r \in Requests :
        /\ Listed(r)
        /\ Len(Items(r)) = 2
        /\ ~EventReadable(Items(r)[1])
        /\ ReadableOverlap(r, Items(r)[2])
        /\ ~frame[r].conflict.found

\* C6 as stated: a conflict is reported iff some returned event overlaps the
\* proposed interval.
C6_ConflictIffSomeOverlap ==
    \A r \in Requests :
        Listed(r) /\ ~frame[r].listing.raised =>
            (frame[r].conflict.found
                <=> \E i \in 1..Len(Items(r)) : ReadableOverlap(r, Items(r)[i]))

\* C6 amended: a conflict is reported iff some returned event, with every
\* event returned before it readable, satisfies start < eventEnd and
\* end > eventStart; an event that only touches the interval is no conflict.
C6_ConflictIffOverlapReached ==
    \A r \in Requests :
        Listed(r) /\ ~frame[r].listing.raised =>
            (frame[r].conflict.found
                <=> \E i \in 1..Len(Items(r)) :
                        /\ ReadableOverlap(r, Items(r)[i])
                        /\ \A j \in 1..(i - 1) : EventReadable(Items(r)[j]))

C6_Witness ==
    \E r \in Requests :
        /\ Listed(r)
        /\ Instant(frame[r].start) < Instant(frame[r].end)
        /\ Len(Items(r)) = 2
        /\ EventReadable(Items(r)[1])
        /\ EventReadable(Items(r)[2])
        /\ Instant(ParseEventDatetime(Items(r)[1].start)) = Instant(frame[r].end)
        /\ Instant(ParseEventDatetime(Items(r)[2].end)) = Instant(frame[r].start)
        /\ ~frame[r].conflict.found

\* C7: event_created is true only if a provider insert call of the same
\* request completed successfully; on every other path it is false.
C7_EventCreatedOnlyAfterInsert ==
    \A r \in Requests : state[r].event_created => calls[r].inserted >= 1

C7_Witness ==
    \E r \in Requests : Returned(r) /\ state[r].event_created /\ calls[r].inserted = 1

BranchPcs == {"appointment", "general", "unrelated"}

BranchHandlers == {"extract_datetime", "answer_general_question", "handle_unrelated"}

HandlerOf(branch) ==
    CASE branch = "appointment" -> "extract_datetime"
      [] branch = "general" -> "answer_general_question"
      [] OTHER -> "handle_unrelated"

HandlersRun(r) == {ran[r][i] : i \in 1..Len(ran[r])} \cap BranchHandlers

BranchByEquality(category) ==
    IF category = <<"APPOINTMENT">> THEN "appointment"
    ELSE IF category = <<"GENERAL">> THEN "general"
    ELSE "unrelated"

BranchByContainment(category) ==
    IF \E i \in 1..Len(category) : category[i] = "APPOINTMENT" THEN "appointment"
    ELSE IF \E i \in 1..Len(category) : category[i] = "GENERAL" THEN "general"
    ELSE "unrelated"

C9_UnparsableClassification ==
    \A r \in Requests :
        raw[r].classification \in {"empty", "garbage", "bad_json"} =>
            /\ state[r].category = <<"UNRELATED">>
            /\ state[r].language = "english"
            /\ pc[r] \in {"select_path", "unrelated", "responding", "terminal", "done"}
            /\ HandlersRun(r) \subseteq {"handle_unrelated"}
            /\ pc[r] \in {"responding", "terminal", "done"} =>
                 state[r].response = CatalogMessage("unrelated", "english")
            /\ Returned(r) => ret[r].value = CatalogMessage("unrelated", "english")

C9_Witness ==
    \E r \in Requests :
        /\ raw[r].classification = "garbage"
        /\ Returned(r)
        /\ ret[r].value = CatalogMessage("unrelated", "english")

\* C10: on the appointment path, when the extraction output cannot be parsed,
\* create_calendar_event sets the extraction-failed message of the request's
\* language and the flow goes to responding, with no calendar handle, no
\* provider call and event_created false.
C10_ExtractionFailedResponds ==
    \A r \in Requests :
        raw[r].extraction \in {"empty", "garbage", "bad_json"}
          /\ Ran(r, "create_calendar_event") =>
            /\ pc[r] \in {"responding", "terminal", "done"}
            /\ state[r].response = CatalogMessage("extraction_failed", state[r].language)
            /\ helper[r] = 0
            /\ calls[r] = NoCalls
            /\ ~state[r].event_created

Count(r, method) == Cardinality({i \in 1..Len(ran[r]) : ran[r][i] = method})

FlowMethods ==
    {"route_message", "select_path", "extract_datetime", "create_calendar_event",
     "answer_general_question", "handle_unrelated", "send_to_whatsapp"}

Before(r, first, second) ==
    \E i, j \in 1..Len(ran[r]) : i < j /\ ran[r][i] = first /\ ran[r][j] = second

\* C11: within one request every stage runs at most once and in sequence:
\* extraction only after classification has completed, the provider list call
\* only after extraction has completed, the provider insert call only after
\* the list call has completed; no insert without a list call before it.
C11_StagesInSequence ==
    \A r \in Requests :
        /\ \A method \in FlowMethods : Count(r, method) <= 1
        /\ calls[r].list <= 1
        /\ calls[r].insert <= 1
        /\ (pc[r] = "appointment" \/ Ran(r, "extract_datetime")) =>
              /\ Ran(r, "route_message")
              /\ Ran(r, "extract_datetime") => Before(r, "route_message", "extract_datetime")
        /\ (pc[r] = "check_time_conflict" \/ calls[r].list >= 1) =>
              /\ Ran(r, "extract_datetime")
              /\ pc[r] \notin {"route_message", "select_path", "appointment"}
        /\ (pc[r] = "insert" \/ calls[r].insert >= 1) =>
              /\ calls[r].list = 1
              /\ pc[r] \notin {"check_time_conflict", "conflict_checked"}

C11_Witness ==
    \E r \in Requests :
        /\ Returned(r)
        /\ Before(r, "route_message", "extract_datetime")
        /\ calls[r].list = 1
        /\ calls[r].insert = 1

ServiceMissing(r) == helper[r] # 0 /\ ~instances[helper[r]].service

\* C12: when the helper's service is None, create_event returns at once
\* success=false with the service-not-configured message of the language
\* (hebrew, otherwise english), no event link and no event id, whatever the
\* date and time are; the request makes no provider call and does not fault.
C12_ServiceNotConfigured ==
    \A r \in Requests :
        ServiceMissing(r) =>
            /\ pc[r] \in {"create_event", "responding", "terminal", "done"}
            /\ calls[r] = NoCalls
            /\ frame[r].entered =>
                 /\ frame[r].returned
                 /\ frame[r].result.success = FALSE
                 /\ frame[r].result.message =
                      (IF state[r].language = "hebrew"
                       THEN <<"service not configured (he)">>
                       ELSE <<"Google Calendar service not configured. Please set up credentials file.">>)
                 /\ frame[r].result.event_link = NONE
                 /\ frame[r].result.event_id = NONE
                 /\ state[r].response = frame[r].result.message
                 /\ ~state[r].event_created

C12_Witness ==
    \E r \in Requests :
        /\ ServiceMissing(r)
        /\ state[r].calendar_data.date = "tomorrow"
        /\ state[r].language = "hebrew"
        /\ frame[r].returned
        /\ Returned(r)

UnexpectedTexts == {"Unexpected error:", "unexpected error (he)"}

MalformedDateTime(r) ==
    /\ helper[r] # 0
    /\ instances[helper[r]].service
    /\ ~ValidDateTime(ArgDate(state[r].calendar_data), ArgTime(state[r].calendar_data))

\* C13: when create_event is called with a malformed or missing date or time,
\* what reaches its caller is a condition of its own, not the outcome that
\* wraps an unexpected exception, and the request makes no provider call.
C13_InvalidDateTimeIsDistinct ==
    \A r \in Requests :
        MalformedDateTime(r) /\ frame[r].returned =>
            /\ calls[r] = NoCalls
            /\ frame[r].result.message[1] \notin UnexpectedTexts

ApiErrorTexts == {"Error scheduling appointment:", "api error (he)"}

InsertAnswered(r, kind) == calls[r].insert = 1 /\ calls[r].insert_answer.kind = kind

\* C14: when the insert call raises HttpError, create_event returns
\* success=false with the API-error message of the language followed by the
\* provider's error text; when it raises any other exception, or timedelta
\* rejects the duration, it returns success=false with the unexpected-error
\* message of the language followed by the exception's text; the two messages
\* differ, there is no event link or id, and the request does not fault.
C14_ApiErrorAndUnexpectedError ==
    \A r \in Requests :
        /\ InsertAnswered(r, "http_error") =>
             /\ pc[r] \in {"responding", "terminal", "done"}
             /\ frame[r].result =
                  [success |-> FALSE,
                   message |-> <<IF state[r].language = "hebrew" THEN "api error (he)"
                                 ELSE "Error scheduling appointment:",
                                 calls[r].insert_answer.detail>>,
                   event_link |-> NONE, event_id |-> NONE]
             /\ frame[r].result.message[1] \notin UnexpectedTexts
        /\ InsertAnswered(r, "error") =>
             /\ pc[r] \in {"responding", "terminal", "done"}
             /\ frame[r].result =
                  [success |-> FALSE,
                   message |-> <<IF state[r].language = "hebrew" THEN "unexpected error (he)"
                                 ELSE "Unexpected error:",
                                 calls[r].insert_answer.detail>>,
                   event_link |-> NONE, event_id |-> NONE]
             /\ frame[r].result.message[1] \notin ApiErrorTexts
        /\ (frame[r].returned /\ helper[r] # 0 /\ instances[helper[r]].service
              /\ state[r].calendar_data.duration.kind = "null"
              /\ ~MalformedDateTime(r)) =>
             /\ frame[r].result.success = FALSE
             /\ frame[r].result.message[1] \in UnexpectedTexts
             /\ calls[r] = NoCalls

C14_Witness ==
    \E r \in Requests :
        /\ InsertAnswered(r, "http_error")
        /\ state[r].language = "hebrew"
        /\ frame[r].result.message = <<"api error (he)", "HttpError 403">>
        /\ Returned(r)

\* create_event has computed the proposed interval of request r
Proposed(r) ==
    pc[r] \in {"check_time_conflict", "conflict_checked", "insert"} \/ calls[r].list >= 1

\* C15: every proposed interval that create_event hands to the conflict check
\* or to the insert call ends strictly after it starts, whatever duration the
\* extraction stage gave.
C15_EndAfterStart ==
    \A r \in Requests : Proposed(r) => Instant(frame[r].end) > Instant(frame[r].start)

CategoryEnum == {<<"APPOINTMENT">>, <<"GENERAL">>, <<"UNRELATED">>}

Routed(r) == Ran(r, "route_message") /\ pc[r] # "fault"

\* C16: once route_message has completed, category is exactly one of
\* APPOINTMENT, GENERAL and UNRELATED, whatever the classification stage
\* answered.
C16_CategoryIsOneOfThree ==
    \A r \in Requests : Routed(r) => state[r].category \in CategoryEnum

\* the second half of C16: no stage after route_message changes category
C16_CategorySetOnce ==
    [][\A r \in Requests :
          Routed(r) /\ pc'[r] # "replied" => state'[r].category = state[r].category]_vars

\* C17: when the service is available, the date and time are valid, no
\* conflict was found and the insert call succeeds, create_event returns
\* success=true with the provider's event link and id, both non-empty, and
\* the confirmation of the language naming the date, time, duration and
\* title it was called with; the state records the result.
C17_SuccessfulBooking ==
    \A r \in Requests :
        InsertAnswered(r, "ok") =>
            /\ frame[r].returned
            /\ frame[r].result.success = TRUE
            /\ frame[r].result.event_link = calls[r].insert_answer.link
            /\ frame[r].result.event_link \notin {NONE, ""}
            /\ frame[r].result.event_id = calls[r].insert_answer.id
            /\ frame[r].result.event_id \notin {NONE, ""}
            /\ frame[r].result.message =
                 <<IF state[r].language = "hebrew" THEN "scheduled (he)"
                   ELSE "Appointment scheduled successfully!",
                   state[r].calendar_data.date,
                   state[r].calendar_data.time,
                   ToString(IF state[r].calendar_data.duration.kind = "absent"
                            THEN 60 ELSE state[r].calendar_data.duration.val),
                   IF state[r].calendar_data.title = ABSENT THEN "Appointment"
                   ELSE state[r].calendar_data.title>>
            /\ state[r].event_created
            /\ state[r].response = frame[r].result.message

C17_Witness ==
    \E r \in Requests :
        /\ InsertAnswered(r, "ok")
        /\ ~frame[r].conflict.found
        /\ state[r].language = "hebrew"
        /\ state[r].calendar_data.title = ABSENT
        /\ frame[r].result.message =
             <<"scheduled (he)", "2024-01-15", "10:00", "30", "Appointment">>
        /\ Returned(r)

RoundTripDates == {"2024-01-15", "2024-01-16", "2024-03-29", "2024-07-15", "2024-10-27"}

RoundTripTimes == {"02:30", "10:00", "11:00"}

\* _parse_datetime, then isoformat, then _parse_event_datetime
RoundTrip(dt) == ParseEventDatetime(IsoFormat(dt))

TimeValuesOf(items) ==
    {items[i].start : i \in 1..Len(items)} \cup {items[i].end : i \in 1..Len(items)}

HandlerCompleted(r) ==
    \/ Ran(r, "answer_general_question")
    \/ Ran(r, "handle_unrelated") /\ state[r].language \in CatalogLanguages
    \/ /\ Ran(r, "create_calendar_event")
       /\ pc[r] \in {"responding", "terminal", "done"}
       /\ frame[r].returned \/ state[r].language \in CatalogLanguages

\* C19: after whichever branch handler completed, send_to_whatsapp runs, once:
\* a request whose flow has ended with its handler completed has run it
\* exactly once.
C19_RespondingRunsOnce ==
    \A r \in Requests :
        HandlerCompleted(r) /\ pc[r] \in {"terminal", "done"} =>
            Count(r, "send_to_whatsapp") = 1

\* the frame part of C19: send_to_whatsapp changes no field of the state, and
\* the response returned afterwards is the one the handler set
C19_RespondingChangesNothing ==
    /\ [][\A r \in Requests : pc[r] = "responding" /\ pc'[r] = "terminal" => state' = state]_vars
    /\ [](\A r \in Requests : Returned(r) => ret[r].value = state[r].response)

OtherBranch(r) ==
    \/ pc[r] \in {"general", "unrelated"}
    \/ Ran(r, "answer_general_question")
    \/ Ran(r, "handle_unrelated")

\* C20: a request on the general or the unrelated branch never runs the
\* extraction stage or create_calendar_event, keeps calendar_data None, never
\* gets the calendar helper, never enters create_event, makes no provider
\* call and keeps event_created false; on the general branch the response,
\* and what process_whatsapp_message returns, is the answer stage's text
\* unchanged.
C20_OtherBranchesLeaveCalendarAlone ==
    \A r \in Requests :
        OtherBranch(r) =>
            /\ ~Ran(r, "extract_datetime")
            /\ ~Ran(r, "create_calendar_event")
            /\ state[r].calendar_data.kind = "None"
            /\ helper[r] = 0
            /\ frame[r] = NoFrame
            /\ calls[r] = NoCalls
            /\ state[r].event_created = FALSE
            /\ Ran(r, "answer_general_question") =>
                 /\ state[r].response = raw[r].answer
                 /\ Returned(r) => ret[r].value = raw[r].answer

C20_Witness ==
    \E r \in Requests :
        /\ Ran(r, "answer_general_question")
        /\ raw[r].answer = <<"You can book by sending a date and a time.">>
        /\ Returned(r)
        /\ calendar_helper # 0
        /\ calendar # {}

HasToken(category, token) == \E i \in 1..Len(category) : category[i] = token

RoutedCategories == {Upper(category) : category \in CategoryValues \ {<<NULL>>, <<ABSENT>>}}

\* C21: select_path gives exactly one branch for every category string and
\* looks for APPOINTMENT first: a category with APPOINTMENT and GENERAL goes
\* to the appointment branch, one with GENERAL and no APPOINTMENT to the
\* general branch, every other one, the empty string included, to the
\* unrelated branch.
C21_SelectPathPrecedence ==
    /\ \A category \in RoutedCategories : SelectPathOf(category) \in BranchPcs
    /\ \A r \in Requests :
          pc[r] \in BranchPcs =>
              /\ Ran(r, "select_path")
              /\ HasToken(state[r].category, "APPOINTMENT") => pc[r] = "appointment"
              /\ (HasToken(state[r].category, "GENERAL")
                    /\ ~HasToken(state[r].category, "APPOINTMENT")) => pc[r] = "general"
              /\ (~HasToken(state[r].category, "GENERAL")
                    /\ ~HasToken(state[r].category, "APPOINTMENT")) => pc[r] = "unrelated"
    /\ \A r \in Requests :
          pc[r] = "select_path" => state[r].category \in RoutedCategories

C21_Witness ==
    \E r \in Requests :
        /\ pc[r] = "appointment"
        /\ HasToken(state[r].category, "GENERAL")
        /\ HasToken(state[r].category, "APPOINTMENT")
        /\ \E q \in Requests : pc[q] = "replied"

Earlier(x, y) == IF x <= y THEN x ELSE y

Later(x, y) == IF x >= y THEN x ELSE y

\* two stored events have an instant in common
SharesTime(a, b) ==
    Later(StoredStart(a), StoredStart(b)) < Earlier(StoredEnd(a), StoredEnd(b))

\* C22: with one request at a time and a reliable provider, starting from
\* stored events that do not overlap, no two stored events ever have an
\* instant in common, whatever create_event calls were made.
C22_NoDoubleBooking ==
    \A a, b \in calendar : a # b => ~SharesTime(a, b)

C22_Witness ==
    \E r \in Requests :
        /\ frame[r].conflict.found
        /\ frame[r].returned
        /\ \E event \in calendar :
              /\ event.nth > 0
              /\ frame[r].conflict.summary = event.summary
              /\ StoredStart(event) < StoredEnd(event)
        /\ \E event \in calendar : event.nth = 0

\* the proposed intervals of two requests have an instant in common
ProposedShareTime(r, q) ==
    Later(Instant(frame[r].start), Instant(frame[q].start))
        < Earlier(Instant(frame[r].end), Instant(frame[q].end))

\* C23: of two concurrent requests for overlapping intervals, with a reliable
\* provider and an empty calendar, at most one gets success=true and an
\* inserted event.
C23_AtMostOneBooking ==
    \A r, q \in Requests :
        (r # q /\ frame[r].result.success /\ frame[q].result.success
           /\ calls[r].inserted = 1 /\ calls[q].inserted = 1)
            => ~ProposedShareTime(r, q)

NotConfiguredTexts ==
    {"service not configured (he)",
     "Google Calendar service not configured. Please set up credentials file."}

\* C24: once get_calendar_helper has constructed the helper, initialization
\* never runs again and every call returns that instance; when its
\* initialization failed, every create_event afterwards returns the
\* service-not-configured failure and no request makes a provider call.
C24_HandleReused ==
    /\ Len(instances) <= 1
    /\ \A r \in Requests : helper[r] # 0 => helper[r] = 1
    /\ (instances # <<>> /\ ~instances[1].service) =>
          \A r \in Requests :
              /\ calls[r] = NoCalls
              /\ pc[r] \notin {"check_time_conflict", "conflict_checked", "insert"}
              /\ frame[r].returned =>
                   /\ frame[r].result.success = FALSE
                   /\ frame[r].result.message[1] \in NotConfiguredTexts

\* one request at a time, C24 holds: a second request finds the helper of
\* the first one, failed or not
C24_Reused ==
    \E r \in Requests :
        /\ \E q \in Requests : q # r /\ pc[q] = "replied"
        /\ helper[r] = 1
        /\ ~instances[1].service
        /\ frame[r].returned

====
